---- MODULE Spec2Model ----
(***************************************************************************)
(* A model of script.cjs: a CSV file is read line by line, the first line  *)
(* fixes the headers, every later line is decoded into a row and offered   *)
(* to four max-trackers; at the end the trackers are printed or saved.     *)
(*                                                                         *)
(* Text is modelled as a sequence of one-character strings, so that        *)
(* trim, split, toLowerCase and Number act on characters as they do in     *)
(* JavaScript.  A JavaScript value is a record [t, n, s]: t is the type    *)
(* tag, n the number in hundredths (every field of the modelled inputs is  *)
(* an integer, so every score is an exact multiple of 1/100), s the text.  *)
(***************************************************************************)
EXTENDS Integers, Sequences, FiniteSets

\* ----------------------------------------------------------------- bounds
\* Largest number of data rows of an input file of Spec.
MaxRows == 3
\* Largest length of the raw field of an input file of SpecDecode.
MaxFieldLen == 3

\* The literal 100 of the two discount formulas; also the fixed-point unit.
Hundred == 100

\* ------------------------------------------------------------------- text
\* The characters of the model in code-unit (ASCII) order.
CodeUnits ==
    << " ", ",", "-", "0", "1", "2", "3", "4", "5", "6", "7", "8", "9",
       "A", "B", "C", "D", "E", "F", "G", "H", "I", "J", "K", "L", "M",
       "N", "O", "P", "Q", "R", "S", "T", "U", "V", "W", "X", "Y", "Z",
       "a", "b", "c", "d", "e", "f", "g", "h", "i", "j", "k", "l", "m",
       "n", "o", "p", "q", "r", "s", "t", "u", "v", "w", "x", "y", "z" >>

Code(c) == CHOOSE i \in 1..Len(CodeUnits) : CodeUnits[i] = c

Digits == {"0", "1", "2", "3", "4", "5", "6", "7", "8", "9"}

DigitValue(c) == Code(c) - Code("0")

IsUpper(c) == Code(c) >= Code("A") /\ Code(c) <= Code("Z")

LowerChar(c) == IF IsUpper(c) THEN CodeUnits[Code(c) + 26] ELSE c

\* String.prototype.toLowerCase
ToLowerCase(s) == IF s = <<>> THEN <<>> ELSE [i \in 1..Len(s) |-> LowerChar(s[i])]

IsWhite(c) == c = " "

RECURSIVE TrimStart(_)
TrimStart(s) ==
    IF s # <<>> /\ IsWhite(Head(s)) THEN TrimStart(Tail(s)) ELSE s

RECURSIVE TrimEnd(_)
TrimEnd(s) ==
    IF s # <<>> /\ IsWhite(s[Len(s)])
    THEN TrimEnd(SubSeq(s, 1, Len(s) - 1))
    ELSE s

\* String.prototype.trim
Trim(s) == TrimEnd(TrimStart(s))

\* String.prototype.split(","): always at least one token.
RECURSIVE Split(_)
Split(s) ==
    IF \E i \in 1..Len(s) : s[i] = ","
    THEN LET i == CHOOSE k \in 1..Len(s) :
                      s[k] = "," /\ \A j \in 1..(k - 1) : s[j] # ","
         IN  <<SubSeq(s, 1, i - 1)>> \o Split(SubSeq(s, i + 1, Len(s)))
    ELSE <<s>>

\* Comparison of two strings by code units (the string case of "<").
RECURSIVE StrLess(_, _)
StrLess(a, b) ==
    IF b = <<>> THEN FALSE
    ELSE IF a = <<>> THEN TRUE
    ELSE IF Head(a) = Head(b) THEN StrLess(Tail(a), Tail(b))
    ELSE Code(Head(a)) < Code(Head(b))

\* ------------------------------------------------------ JavaScript values
Num(k)    == [t |-> "num", n |-> k, s |-> <<>>]
Str(x)    == [t |-> "str", n |-> 0, s |-> x]
NaN       == [t |-> "nan", n |-> 0, s |-> <<>>]
NegInf    == [t |-> "-inf", n |-> 0, s |-> <<>>]
Undefined == [t |-> "undef", n |-> 0, s |-> <<>>]
Null      == [t |-> "null", n |-> 0, s |-> <<>>]

\* The number n of the program text, as a value.
Int2Num(i) == Num(i * Hundred)

RECURSIVE DigitsValue(_)
DigitsValue(s) ==
    IF s = <<>> THEN 0
    ELSE 10 * DigitsValue(SubSeq(s, 1, Len(s) - 1)) + DigitValue(s[Len(s)])

RECURSIVE BinaryValue(_)
BinaryValue(s) ==
    IF s = <<>> THEN 0
    ELSE 2 * BinaryValue(SubSeq(s, 1, Len(s) - 1)) + DigitValue(s[Len(s)])

AllIn(s, set) == s # <<>> /\ \A i \in 1..Len(s) : s[i] \in set

\* Number(string): white space is trimmed, the empty string is 0, a decimal
\* integer with an optional "-" and a "0b" literal are numbers, and every
\* other text made of the characters of the data lines (DataChars) is NaN.
StringToNumber(s) ==
    LET x == Trim(s) IN
    IF x = <<>> THEN Int2Num(0)
    ELSE IF AllIn(x, Digits) THEN Int2Num(DigitsValue(x))
    ELSE IF Head(x) = "-" /\ AllIn(Tail(x), Digits)
         THEN Int2Num(0 - DigitsValue(Tail(x)))
    ELSE IF Len(x) > 2 /\ x[1] = "0" /\ x[2] \in {"b", "B"}
            /\ AllIn(SubSeq(x, 3, Len(x)), {"0", "1"})
         THEN Int2Num(BinaryValue(SubSeq(x, 3, Len(x))))
    ELSE NaN

\* Number(v), and the implicit conversion of an operand of * / - <.
ToNumber(v) ==
    CASE v.t = "str"   -> StringToNumber(v.s)
      [] v.t = "undef" -> NaN
      [] v.t = "null"  -> Int2Num(0)
      [] OTHER         -> v

JSMul(a, b) ==
    LET x == ToNumber(a)
        y == ToNumber(b)
    IN  IF x.t = "num" /\ y.t = "num" THEN Num((x.n * y.n) \div Hundred) ELSE NaN

JSDiv(a, b) ==
    LET x == ToNumber(a)
        y == ToNumber(b)
    IN  IF x.t = "num" /\ y.t = "num" /\ y.n # 0
        THEN Num((x.n * Hundred) \div y.n)
        ELSE NaN

JSSub(a, b) ==
    LET x == ToNumber(a)
        y == ToNumber(b)
    IN  IF x.t = "num" /\ y.t = "num" THEN Num(x.n - y.n) ELSE NaN

\* a < b: two strings compare by code units, anything else as numbers, and
\* a comparison with NaN is false.
JSLess(a, b) ==
    IF a.t = "str" /\ b.t = "str" THEN StrLess(a.s, b.s)
    ELSE LET x == ToNumber(a)
             y == ToNumber(b)
         IN  CASE x.t = "nan" \/ y.t = "nan" -> FALSE
               [] y.t = "-inf"               -> FALSE
               [] x.t = "-inf"               -> TRUE
               [] OTHER                      -> x.n < y.n

\* ------------------------------------------------------------ the row
UnitPrice == <<"u", "n", "i", "t", " ", "p", "r", "i", "c", "e">>
Quantity  == <<"q", "u", "a", "n", "t", "i", "t", "y">>
PercentageDiscount ==
    << "p", "e", "r", "c", "e", "n", "t", "a", "g", "e", " ",
       "d", "i", "s", "c", "o", "u", "n", "t" >>

\* values[i]: reading past the end of an array gives undefined.
At(values, i) == IF i <= Len(values) THEN Str(values[i]) ELSE Undefined

\* A decoder that takes an empty field for a missing one and stores null.
DecodeFieldEmptyAsNull(raw) ==
    LET number == ToNumber(raw) IN
    IF raw.t = "str" /\ raw.s = <<>> THEN Null
    ELSE IF number.t = "nan" THEN raw ELSE number

\* One field of the row: the number when Number(raw) is not NaN, else raw.
DecodeField(raw) ==
    LET number == ToNumber(raw) IN
    IF number.t = "nan" THEN raw ELSE number

\* A row builder that keeps the first entry of a repeated header.
BuildRowFirstWins(headers, values, ref) ==
    LET keys == {headers[i] : i \in 1..Len(headers)}
        first(h) == CHOOSE i \in 1..Len(headers) :
                        /\ headers[i] = h
                        /\ \A j \in 1..(i - 1) : headers[j] # h
    IN  [ref |-> ref,
         fields |-> [h \in keys |-> DecodeField(At(values, first(h)))]]

\* Object.fromEntries(headers.map(...)): one key per distinct header, the
\* entry of the last position of a repeated header wins.  ref stands for the
\* identity of the row object: the number of the line it was built from.
BuildRow(headers, values, ref) ==
    LET keys == {headers[i] : i \in 1..Len(headers)}
        last(h) == CHOOSE i \in 1..Len(headers) :
                       /\ headers[i] = h
                       /\ \A j \in (i + 1)..Len(headers) : headers[j] # h
    IN  [ref |-> ref,
         fields |-> [h \in keys |-> DecodeField(At(values, last(h)))]]

\* row[key]: undefined when the row has no such key.
Get(row, key) ==
    IF key \in DOMAIN row.fields THEN row.fields[key] ELSE Undefined

hasProperties(obj, keys) ==
    IF obj = Null THEN FALSE ELSE \A key \in keys : key \in DOMAIN obj.fields

\* ------------------------------------------------------------ trackers
\* An object literal with the first two trackers in the other order.
TrackerOrderSwapped ==
    << "maxAmountWithDiscount", "maxAmountWithoutDiscount",
       "maxQuantity", "maxDiffWithDiscount" >>

\* Object.values(trackers): the four trackers in the order of the literal.
TrackerOrder ==
    << "maxAmountWithoutDiscount", "maxAmountWithDiscount",
       "maxQuantity", "maxDiffWithDiscount" >>

TrackerIds == {TrackerOrder[i] : i \in 1..Len(TrackerOrder)}

createTrackers == [id \in TrackerIds |-> [value |-> NegInf, record |-> Null]]

\* The keys each process() hands to hasProperties.
Required(id) ==
    CASE id = "maxAmountWithoutDiscount" -> {Quantity, UnitPrice}
      [] id = "maxAmountWithDiscount"    -> {Quantity, UnitPrice, PercentageDiscount}
      [] id = "maxQuantity"              -> {Quantity}
      [] id = "maxDiffWithDiscount"      -> {Quantity, UnitPrice, PercentageDiscount}

\* Scores whose discounted amount multiplies by the discount itself instead of
\* by one minus the discount.
ScoreDiscountNotSubtracted(id, row) ==
    CASE id = "maxAmountWithoutDiscount" ->
            JSMul(Get(row, UnitPrice), Get(row, Quantity))
      [] id = "maxAmountWithDiscount" ->
            JSMul(JSMul(Get(row, UnitPrice), Get(row, Quantity)),
                  JSDiv(Get(row, PercentageDiscount), Int2Num(Hundred)))
      [] id = "maxQuantity" -> Get(row, Quantity)
      [] id = "maxDiffWithDiscount" ->
            JSDiv(JSMul(JSMul(Get(row, Quantity), Get(row, UnitPrice)),
                        Get(row, PercentageDiscount)),
                  Int2Num(Hundred))

\* The quantity each process() compares with this.value.
Score(id, row) ==
    CASE id = "maxAmountWithoutDiscount" ->
            JSMul(Get(row, UnitPrice), Get(row, Quantity))
      [] id = "maxAmountWithDiscount" ->
            JSMul(JSMul(Get(row, UnitPrice), Get(row, Quantity)),
                  JSSub(Int2Num(1),
                        JSDiv(Get(row, PercentageDiscount), Int2Num(Hundred))))
      [] id = "maxQuantity" -> Get(row, Quantity)
      [] id = "maxDiffWithDiscount" ->
            JSDiv(JSMul(JSMul(Get(row, Quantity), Get(row, UnitPrice)),
                        Get(row, PercentageDiscount)),
                  Int2Num(Hundred))

\* A process() that stores the row before it compares the score.
ProcessRecordFirst(id, tr, row) ==
    IF ~hasProperties(row, Required(id)) THEN tr
    ELSE LET score == Score(id, row) IN
         IF JSLess(score, tr.value) THEN [value |-> tr.value, record |-> row]
         ELSE [value |-> score, record |-> row]

\* tracker.process(row) of the tracker id, whose state is tr.
Process(id, tr, row) ==
    IF ~hasProperties(row, Required(id)) THEN tr
    ELSE LET score == Score(id, row) IN
         IF JSLess(score, tr.value) THEN tr
         ELSE [value |-> score, record |-> row]

\* Trackers that keep one best value between the two discount trackers:
\* maxDiffWithDiscount compares with the value of maxAmountWithDiscount.
ProcessAllSharedBest(trs, row) ==
    [id \in TrackerIds |->
        IF id = "maxDiffWithDiscount"
        THEN Process(id, [value |-> trs["maxAmountWithDiscount"].value,
                          record |-> trs[id].record], row)
        ELSE Process(id, trs[id], row)]

\* Object.values(trackers).forEach(tracker => tracker.process(row))
ProcessAll(trs, row) == [id \in TrackerIds |-> Process(id, trs[id], row)]

\* ------------------------------------------------------------ the views
\* JSON.stringify of a value inside an object: NaN and -Infinity become null.
JsonValue(v) == IF v.t \in {"nan", "-inf"} THEN Null ELSE v

\* JSON.stringify of a record: null, or the row without the keys whose value
\* is undefined.
JsonRecord(rec) ==
    IF rec = Null THEN Null
    ELSE LET keys == {k \in DOMAIN rec.fields : rec.fields[k].t # "undef"}
         IN  [ref |-> rec.ref,
              fields |-> [k \in keys |-> JsonValue(rec.fields[k])]]

\* A toJSON that hands out this.value as it is.
toJSONKeepSentinel(tr) == [value |-> tr.value, record |-> tr.record]

\* tracker.toJSON()
toJSON(tr) ==
    [value |-> IF tr.value = NegInf THEN Null ELSE tr.value,
     record |-> tr.record]

\* JSON.stringify of one tracker: toJSON() is called, then a key whose value
\* is undefined is left out.
JsonTracker(tr) ==
    LET j == toJSON(tr)
        keys == IF j.value.t = "undef" THEN {"record"} ELSE {"value", "record"}
    IN  [k \in keys |-> IF k = "value" THEN JsonValue(j.value)
                        ELSE JsonRecord(j.record)]

\* saveOutput(path, trackers): the content of the file written.
saveOutput(trs) == [id \in TrackerIds |-> JsonTracker(trs[id])]

RECURSIVE NatToText(_)
NatToText(k) ==
    IF k < 10 THEN <<CodeUnits[Code("0") + k]>>
    ELSE NatToText(k \div 10) \o <<CodeUnits[Code("0") + (k % 10)]>>

\* String(number) of a number of hundredths.
NumberToText(k) ==
    LET a == IF k < 0 THEN 0 - k ELSE k
        whole == NatToText(a \div Hundred)
        frac == a % Hundred
        fracText == IF frac = 0 THEN <<>>
                    ELSE IF frac % 10 = 0 THEN <<".">> \o NatToText(frac \div 10)
                    ELSE IF frac < 10 THEN <<".", "0">> \o NatToText(frac)
                    ELSE <<".">> \o NatToText(frac)
    IN  (IF k < 0 THEN <<"-">> ELSE <<>>) \o whole \o fracText

\* `${value}` of a template literal.
ToText(v) ==
    CASE v.t = "num"   -> NumberToText(v.n)
      [] v.t = "str"   -> v.s
      [] v.t = "nan"   -> <<"N", "a", "N">>
      [] v.t = "-inf"  -> <<"-", "I", "n", "f", "i", "n", "i", "t", "y">>
      [] v.t = "undef" -> <<"u", "n", "d", "e", "f", "i", "n", "e", "d">>
      [] v.t = "null"  -> <<"n", "u", "l", "l">>

Label(id) ==
    CASE id = "maxAmountWithoutDiscount" -> "Max amount without discount"
      [] id = "maxAmountWithDiscount"    -> "Max amount with discount"
      [] id = "maxQuantity" -> "Max quantity between all the records"
      [] id = "maxDiffWithDiscount" ->
            "Max difference between total amount with and without discount"

\* tracker.toString(): "<label>: <value>\nRecord: <record as JSON>", kept as
\* its three parts.
toString(id, tr) ==
    [label |-> Label(id), value |-> ToText(tr.value),
     record |-> JsonRecord(tr.record)]

\* ------------------------------------------------------------ the inputs
SeqsUpTo(S, k) == UNION {[1..j -> S] : j \in 0..k}

Comma == <<",">>

\* "unit price,quantity,percentage discount"
Header3 == UnitPrice \o Comma \o Quantity \o Comma \o PercentageDiscount
\* "unit price,quantity": a file without the discount column
Header2 == UnitPrice \o Comma \o Quantity

Headers == {Header3, Header2}

\* The data lines of Spec: "1,2,0" and "2,1,50" tie on the amount without
\* discount, "a,3,0" and "1,b,0" hold text, "2,2" is short of a token and
\* "1,,0" has an empty field.
DataLines ==
    { <<"1", ",", "2", ",", "0">>,
      <<"2", ",", "1", ",", "5", "0">>,
      <<"a", ",", "3", ",", "0">>,
      <<"1", ",", "b", ",", "0">>,
      <<"2", ",", "2">>,
      <<"1", ",", ",", "0">> }

\* A file is the sequence of its lines; the empty file has none.
FilesOf(headers, lines, k) ==
    {<<>>} \cup {<<h>> \o d : h \in headers, d \in SeqsUpTo(lines, k)}

Files == FilesOf(Headers, DataLines, MaxRows)

\* The raw fields of SpecDecode: a file with the one column "quantity".
FieldChars == {"0", "1", "7", "a", "b", "c", "-", " "}

DecodeFiles == FilesOf({Quantity}, SeqsUpTo(FieldChars, MaxFieldLen), 1)

\* The example of the README, and every file made of its lines.
ExampleLines ==
    << <<"1", "0", ",", "5", ",", "0">>,
       <<"2", "0", ",", "3", ",", "1", "0">>,
       <<"1", "5", ",", "7", ",", "5">> >>

ExampleFile == <<Header3>> \o ExampleLines

ExampleFiles ==
    FilesOf({Header3}, {ExampleLines[i] : i \in 1..Len(ExampleLines)}, MaxRows)

\* First lines of SpecHeader: spaces after the commas and capitals, capitals
\* only, the same name twice, and a line that looks like data.
HeaderSpaced ==
    << "U", "n", "i", "t", " ", "P", "r", "i", "c", "e", ",", " ", "Q", "u",
       "a", "n", "t", "i", "t", "y", ",", " ", "P", "e", "r", "c", "e", "n",
       "t", "a", "g", "e", " ", "D", "i", "s", "c", "o", "u", "n", "t" >>

HeaderCapitals ==
    << "U", "n", "i", "t", " ", "P", "r", "i", "c", "e", ",", "Q", "u", "a",
       "n", "t", "i", "t", "y", ",", "P", "e", "r", "c", "e", "n", "t", "a",
       "g", "e", " ", "D", "i", "s", "c", "o", "u", "n", "t" >>

HeaderTwice ==
    << "Q", "u", "a", "n", "t", "i", "t", "y", ",", "q", "u", "a", "n", "t",
       "i", "t", "y" >>

FirstLines ==
    {HeaderSpaced, HeaderCapitals, HeaderTwice, <<"1", ",", "2", ",", "0">>}

\* The data lines of SpecHeader: "1,2,0", "2,1,50" and the short line "3".
HeaderDataLines ==
    { <<"1", ",", "2", ",", "0">>,
      <<"2", ",", "1", ",", "5", "0">>,
      <<"3">> }

HeaderFiles == FilesOf(FirstLines, HeaderDataLines, MaxRows)

\* ------------------------------------------------------------- the state
VARIABLES
    pc,          \* where main is: "start", "reading", "done", "failed", "crashed"
    input,       \* the lines of the input file
    pos,         \* how many lines the line reader has delivered
    outputPath,  \* options.outputPath: "unset" before getOptions, "none", "dir"
    headers,     \* processFile's headers
    isFirstLine, \* processFile's isFirstLine
    values,      \* the tokens of the last line read
    row,         \* the row built from the last data line, Null before
    trackers,    \* the four trackers: id -> [value, record]
    stdout,      \* the blocks printed by console.log
    stderr,      \* the messages printed by console.error
    outFile,     \* the content of the JSON file written, Null when none
    stream       \* the file handle of the read stream: "none", "open", "closed"

vars == << pc, input, pos, outputPath, headers, isFirstLine, values, row,
           trackers, stdout, stderr, outFile, stream >>

InitOn(files) ==
    /\ input \in files
    /\ pc = "start"
    /\ pos = 0
    /\ outputPath = "unset"
    /\ headers = <<>>
    /\ isFirstLine = TRUE
    /\ values = <<>>
    /\ row = Null
    /\ trackers = createTrackers
    /\ stdout = <<>>
    /\ stderr = <<>>
    /\ outFile = Null
    /\ stream = "none"

Init == InitOn(Files)

Extensions == { <<"c", "s", "v">>, <<"C", "S", "V">>, <<"t", "x", "t">> }

\* getOptions() for argv of length argc, an input path with the extension
\* ext that exists or not, and an output path that exists or not.
getOptions(argc, inputExists, ext, outputExists) ==
    IF argc <= 2 THEN [error |-> "CSV file not provided"]
    ELSE IF ~inputExists
    THEN [error |-> "The provided file does not exists, check the inserted path"]
    ELSE IF ToLowerCase(ext) # <<"c", "s", "v">>
    THEN [error |-> "The provided file is not a CSV"]
    ELSE IF argc >= 4 /\ ~outputExists
    THEN [error |->
            "The provided output path does not exists, check the inserted path"]
    ELSE [error |-> "", outputPath |-> IF argc >= 4 THEN "dir" ELSE "none"]

\* Read stream options that keep the file handle after the end or an error.
ReadStreamOptionsKeepOpen == [encoding |-> "utf-8", autoClose |-> FALSE]

\* The options processFile gives fs.createReadStream.
ReadStreamOptions == [encoding |-> "utf-8"]

\* The autoClose of a read stream: true unless the options say otherwise.
AutoClose(options) ==
    IF "autoClose" \in DOMAIN options THEN options.autoClose ELSE TRUE

\* main: getOptions throws and the catch reports the message.
MainConfigError ==
    /\ pc = "start"
    /\ \E argc \in 2..4, inputExists \in BOOLEAN, ext \in Extensions,
          outputExists \in BOOLEAN :
          LET o == getOptions(argc, inputExists, ext, outputExists) IN
          /\ o.error # ""
          /\ stderr' = Append(stderr, o.error)
    /\ pc' = "failed"
    /\ UNCHANGED << input, pos, outputPath, headers, isFirstLine, values, row,
                    trackers, stdout, outFile,
                    stream >>

\* main: getOptions returns and processFile runs up to its first await.
MainOpen ==
    /\ pc = "start"
    /\ \E argc \in 2..4, inputExists \in BOOLEAN, ext \in Extensions,
          outputExists \in BOOLEAN :
          LET o == getOptions(argc, inputExists, ext, outputExists) IN
          /\ o.error = ""
          /\ outputPath' = o.outputPath
    /\ headers' = <<>>
    /\ isFirstLine' = TRUE
    /\ trackers' = createTrackers
    /\ stream' = "open"
    /\ pc' = "reading"
    /\ UNCHANGED << input, pos, values, row, stdout, stderr, outFile >>

\* A loop that takes a first line starting with a number for a data line of
\* a file without header, and reads it with the three standard names.
ReadHeaderSniffed ==
    /\ pc = "reading"
    /\ pos < Len(input)
    /\ isFirstLine
    /\ LET vs == Split(Trim(input[pos + 1]))
           names == <<UnitPrice, Quantity, PercentageDiscount>>
           r == BuildRow(names, vs, pos + 1)
       IN  /\ values' = vs
           /\ IF StringToNumber(vs[1]).t = "num"
              THEN /\ headers' = names
                   /\ row' = r
                   /\ trackers' = ProcessAll(trackers, r)
              ELSE /\ headers' = [i \in 1..Len(vs) |-> ToLowerCase(vs[i])]
                   /\ UNCHANGED << row, trackers >>
    /\ isFirstLine' = FALSE
    /\ pos' = pos + 1
    /\ UNCHANGED << pc, input, outputPath, stdout, stderr, outFile,
                    stream >>

\* One turn of the loop on the first line.
ReadHeader ==
    /\ pc = "reading"
    /\ pos < Len(input)
    /\ isFirstLine
    /\ LET vs == Split(Trim(input[pos + 1])) IN
       /\ values' = vs
       /\ headers' = [i \in 1..Len(vs) |-> ToLowerCase(vs[i])]
    /\ isFirstLine' = FALSE
    /\ pos' = pos + 1
    /\ UNCHANGED << pc, input, outputPath, row, trackers, stdout, stderr,
                    outFile,
                    stream >>

\* One turn of the loop on a later line.
ReadRow ==
    /\ pc = "reading"
    /\ pos < Len(input)
    /\ ~isFirstLine
    /\ LET vs == Split(Trim(input[pos + 1]))
           r == BuildRow(headers, vs, pos + 1)
       IN  /\ values' = vs
           /\ row' = r
           /\ trackers' = ProcessAll(trackers, r)
    /\ pos' = pos + 1
    /\ UNCHANGED << pc, input, outputPath, headers, isFirstLine, stdout,
                    stderr, outFile,
                    stream >>

\* A main whose catch prints the trackers it has before reporting the error.
ReadErrorThenPrint ==
    /\ pc = "reading"
    /\ stream = "open"
    /\ stdout' = [i \in 1..Len(TrackerOrder) |->
                    toString(TrackerOrder[i], trackers[TrackerOrder[i]])]
    /\ stderr' = Append(stderr, "read error")
    /\ pc' = "failed"
    /\ UNCHANGED << input, pos, outputPath, headers, isFirstLine, values, row,
                    trackers, outFile,
                    stream >>

\* The stream fails while the loop waits for a line, after any number of
\* lines: either the loop throws and main's catch reports the message, or the
\* error event of the stream is not handled and the process ends with the
\* error on stderr.
ReadError ==
    /\ pc = "reading"
    /\ stream = "open"
    /\ stderr' = Append(stderr, "read error")
    /\ \/ pc' = "failed"
       \/ pc' = "crashed"
    /\ UNCHANGED << input, pos, outputPath, headers, isFirstLine, values, row,
                    trackers, stdout, outFile,
                    stream >>

\* End of input with an output directory: saveOutput writes the JSON file.
EndSave ==
    /\ pc = "reading"
    /\ pos = Len(input)
    /\ outputPath = "dir"
    /\ outFile' = saveOutput(trackers)
    /\ pc' = "done"
    /\ UNCHANGED << input, pos, outputPath, headers, isFirstLine, values, row,
                    trackers, stdout, stderr,
                    stream >>

\* End of input without one: one console.log per tracker.
EndPrint ==
    /\ pc = "reading"
    /\ pos = Len(input)
    /\ outputPath = "none"
    /\ stdout' = [i \in 1..Len(TrackerOrder) |->
                    toString(TrackerOrder[i], trackers[TrackerOrder[i]])]
    /\ pc' = "done"
    /\ UNCHANGED << input, pos, outputPath, headers, isFirstLine, values, row,
                    trackers, stderr, outFile,
                    stream >>

\* The read stream reaches the end of the file or fails, and, with
\* autoClose, closes its file handle.  The stream reads ahead of the loop, so
\* the end of the file may come before the loop has taken every line.
StreamClose ==
    /\ stream = "open"
    /\ AutoClose(ReadStreamOptions)
    /\ stream' = "closed"
    /\ UNCHANGED << pc, input, pos, outputPath, headers, isFirstLine, values,
                    row, trackers, stdout, stderr, outFile >>

Next ==
    \/ MainConfigError
    \/ MainOpen
    \/ ReadHeader
    \/ ReadRow
    \/ ReadError
    \/ EndSave
    \/ EndPrint
    \/ StreamClose

Spec == Init /\ [][Next]_vars

SpecDecode == InitOn(DecodeFiles) /\ [][Next]_vars

SpecExample == InitOn(ExampleFiles) /\ [][Next]_vars

SpecHeader == InitOn(HeaderFiles) /\ [][Next]_vars

\* The event loop runs the pending close of the stream before the process
\* may end.
SpecStream == InitOn(ExampleFiles) /\ [][Next]_vars /\ WF_vars(StreamClose)

\* ------------------------------------------------------------ the claims
\* The row the loop built from line i of the input (i >= 2).
RowAt(i) == BuildRow(headers, Split(Trim(input[i])), i)

\* The lines consumed so far whose row passes the guard of tracker id.
Qualifying(id) == {i \in 2..pos : hasProperties(RowAt(i), Required(id))}

ScoresSeen(id) == {Score(id, RowAt(i)) : i \in Qualifying(id)}

\* v is a maximum of S: it is in S and no element of S is greater.
IsMaxOf(v, S) == v \in S /\ \A x \in S : ~JSLess(v, x)

Loaded == pc \in {"reading", "done"}

\* C1: after any sequence of data rows, every tracker's value is the maximum
\* of its score over the rows seen so far that passed its guard, and the
\* unset sentinel when no row passed it.
C1_ValueIsMaxOfSeen ==
    Loaded =>
        \A id \in TrackerIds :
            IF Qualifying(id) = {}
            THEN trackers[id].value = NegInf
            ELSE IsMaxOf(trackers[id].value, ScoresSeen(id))

\* The trackers after the loop has run over the data lines ls with headers hs.
RECURSIVE RunRows(_, _, _)
RunRows(trs, hs, ls) ==
    IF ls = <<>> THEN trs
    ELSE RunRows(ProcessAll(trs, BuildRow(hs, Split(Trim(Head(ls))), 0)),
                 hs, Tail(ls))

Orderings(k) ==
    {p \in [1..k -> 1..k] : \A i, j \in 1..k : p[i] = p[j] => i = j}

\* C2: a file with the same header and the same data rows in another order
\* gives every tracker the same final value.
C2_OrderInvariant ==
    (pc = "done" /\ Len(input) >= 1) =>
        \A p \in Orderings(Len(input) - 1) :
            LET ls == [i \in 1..(Len(input) - 1) |-> input[1 + p[i]]]
                other == RunRows(createTrackers, headers, ls)
            IN  \A id \in TrackerIds : other[id].value = trackers[id].value

\* C3: when two or more rows of the stream give a tracker the same maximal
\* score, the tracker's final record is the last of them.
C3_LastTieWins ==
    pc = "done" =>
        \A id \in TrackerIds :
            \A i, j \in Qualifying(id) :
                LET x == Score(id, RowAt(i))
                    tied == {k \in Qualifying(id) : Score(id, RowAt(k)) = x}
                IN  ( /\ i < j
                      /\ x.t # "nan"
                      /\ Score(id, RowAt(j)) = x
                      /\ IsMaxOf(x, ScoresSeen(id)) )
                    => /\ trackers[id].record # Null
                       /\ trackers[id].record.ref
                              = CHOOSE k \in tied : \A m \in tied : m <= k

HeaderOnly == Len(input) = 1

NoData == [value |-> Null, record |-> Null]

\* C4: for a file with a header line and no data rows, toJSON of every
\* tracker, and every tracker in the file written, has value null and
\* record null.
C4_EmptyData ==
    (Loaded /\ HeaderOnly /\ pos = 1) =>
        /\ \A id \in TrackerIds : toJSON(trackers[id]) = NoData
        /\ outFile # Null =>
              \A id \in TrackerIds :
                  /\ DOMAIN outFile[id] = {"value", "record"}
                  /\ outFile[id]["value"] = Null
                  /\ outFile[id]["record"] = Null

C4_Witness == pc = "done" /\ HeaderOnly /\ outFile # Null

MinusInfinityText == <<"-", "I", "n", "f", "i", "n", "i", "t", "y">>

\* C5: a tracker still unset at the end of the stream is never shown as the
\* sentinel number: not in the file written, not in the blocks printed.
C5_SentinelNeverLeaks ==
    /\ outFile # Null =>
          \A id \in TrackerIds :
              trackers[id].value = NegInf =>
                  /\ outFile[id]["value"] = Null
                  /\ outFile[id]["record"] = Null
    /\ \A i \in 1..Len(stdout) :
          trackers[TrackerOrder[i]].value = NegInf =>
              stdout[i].value # MinusInfinityText

IsNumeric(x) == StringToNumber(x).t = "num"

\* C6: with the header "unit price,quantity,percentage discount", a data
\* line that gives numbers for unit price and quantity and has no token for
\* percentage discount updates maxAmountWithoutDiscount and maxQuantity and
\* leaves maxAmountWithDiscount and maxDiffWithDiscount as they were.
C6_MissingFieldIsolation ==
    [][ ( /\ pc = "reading"
          /\ ~isFirstLine
          /\ pos' = pos + 1
          /\ headers = <<UnitPrice, Quantity, PercentageDiscount>>
          /\ Len(values') = 2
          /\ IsNumeric(values'[1])
          /\ IsNumeric(values'[2]) )
        => /\ trackers'["maxAmountWithDiscount"] = trackers["maxAmountWithDiscount"]
           /\ trackers'["maxDiffWithDiscount"] = trackers["maxDiffWithDiscount"]
           /\ ~JSLess(trackers'["maxAmountWithoutDiscount"].value,
                      JSMul(row'.fields[UnitPrice], row'.fields[Quantity]))
           /\ ~JSLess(trackers'["maxQuantity"].value, row'.fields[Quantity])
      ]_vars

\* The row decoder has just run on a line with one raw field.
Decoded == row # Null /\ Len(values) = 1 /\ headers = <<Quantity>>

\* C7: a raw field that parses fully as a number is stored as that number
\* ("007" as 7), an empty field as the number 0, and any other text ("abc")
\* as the same text.
C7_Coercion ==
    Decoded =>
        LET raw == values[1]
            out == row.fields[Quantity]
        IN  /\ raw = <<>> => out = Num(0)
            /\ raw = <<"0", "0", "7">> => out = Num(7 * Hundred)
            /\ raw = <<"a", "b", "c">> => out = Str(<<"a", "b", "c">>)
            /\ out.t \in {"num", "str"}
            /\ out.t = "str" => (out.s = raw /\ ~IsNumeric(raw))
            /\ out.t = "num" => (IsNumeric(raw) /\ out = StringToNumber(raw))
            /\ AllIn(raw, Digits) => out = Num(DigitsValue(raw) * Hundred)

C7_Witness ==
    /\ Decoded
    /\ values[1] = <<"0", "0", "7">>
    /\ row.fields[Quantity] = Num(7 * Hundred)

FixedOrderLabels ==
    << "Max amount without discount",
       "Max amount with discount",
       "Max quantity between all the records",
       "Max difference between total amount with and without discount" >>

C9_Routing ==
    /\ stdout # <<>> =>
          /\ pc = "done" /\ pos = Len(input)
          /\ outputPath = "none" /\ outFile = Null
          /\ Len(stdout) = 4
          /\ \A i \in 1..4 : stdout[i].label = FixedOrderLabels[i]
    /\ outFile # Null =>
          /\ pc = "done" /\ pos = Len(input)
          /\ outputPath = "dir" /\ stdout = <<>>
          /\ DOMAIN outFile = TrackerIds
    /\ pc = "done" => (IF outputPath = "dir" THEN outFile # Null
                       ELSE stdout # <<>>)

\* C9: with an output directory only the JSON file is written, without one
\* only the text is printed, as four blocks in the order
\* maxAmountWithoutDiscount, maxAmountWithDiscount, maxQuantity,
\* maxDiffWithDiscount; either is produced once, when the whole input has
\* been read, and never changes afterwards.
C9_OutputRoutingAndOrder ==
    /\ []C9_Routing
    /\ [][ /\ stdout # <<>> => stdout' = stdout
           /\ outFile # Null => outFile' = outFile
           /\ (stdout' # stdout \/ outFile' # outFile) =>
                  (pos = Len(input) /\ pc' = "done") ]_vars

C9_Witness ==
    /\ pc = "done" /\ Len(input) = 1 + MaxRows
    /\ Len(stdout) = 4 /\ outFile = Null

Aborted == pc \in {"failed", "crashed"}

\* C10: after a fatal error (getOptions throws, or the stream fails after any
\* number of rows) the error is reported and neither the text nor the JSON
\* file is produced; and no view is produced in a run that reported an error.
C10_NoPartialResult ==
    /\ Aborted => (stderr # <<>> /\ stdout = <<>> /\ outFile = Null)
    /\ stderr # <<>> => Aborted

\* The stream failed after two data rows had changed the trackers.
C10_Witness ==
    /\ pc = "failed" /\ pos = 3
    /\ trackers["maxQuantity"].value # NegInf
    /\ stderr = <<"read error">>

Min(a, b) == IF a < b THEN a ELSE b

\* The loop has just built the row of a data line.
RowBuilt == Loaded /\ pos >= 2 /\ row # Null

\* C11: a data line with fewer tokens than headers gives a row without the
\* trailing header names as keys, and a line with more tokens gives a row
\* with exactly the header names: the keys of the row are the names of the
\* positions that have a token.
C11_RowKeySet ==
    RowBuilt =>
        DOMAIN row.fields
            = {headers[i] : i \in 1..Min(Len(values), Len(headers))}

HeaderRead == Loaded /\ pos >= 1

\* C12: every token of the header line is trimmed and lower-cased on its own,
\* so "Unit Price, Quantity, Percentage Discount" gives the names
\* "unit price", "quantity", "percentage discount" of the trackers' guards.
C12_HeaderNormalised ==
    HeaderRead =>
        LET tokens == Split(input[1]) IN
        /\ headers = [i \in 1..Len(tokens) |-> ToLowerCase(Trim(tokens[i]))]
        /\ input[1] = HeaderSpaced =>
              headers = <<UnitPrice, Quantity, PercentageDiscount>>

\* The headers the first line of the input fixes.
SchemaOfFirstLine ==
    LET tokens == Split(Trim(input[1])) IN
    [i \in 1..Len(tokens) |-> ToLowerCase(tokens[i])]

\* The trackers after lines i..j of the input, each decoded with hs and
\* offered once to each tracker, in the order of the lines.
RECURSIVE OfferedInOrder(_, _, _, _)
OfferedInOrder(trs, hs, i, j) ==
    IF i > j THEN trs
    ELSE LET r == BuildRow(hs, Split(Trim(input[i])), i) IN
         OfferedInOrder([id \in TrackerIds |-> Process(id, trs[id], r)],
                        hs, i + 1, j)

C13_Routing ==
    Loaded =>
        /\ pos <= 1 => (trackers = createTrackers /\ row = Null)
        /\ pos >= 1 =>
              /\ headers = SchemaOfFirstLine
              /\ trackers = OfferedInOrder(createTrackers, SchemaOfFirstLine,
                                           2, pos)
        /\ \A id \in TrackerIds :
              trackers[id].record # Null => trackers[id].record.ref \in 2..pos

\* C13: the first line is the header whatever its content and is never
\* offered to a tracker; every later line is decoded with the headers of the
\* first line and offered once to each of the four trackers, in stream
\* order; the headers never change after the first line.
C13_LineRouting ==
    /\ []C13_Routing
    /\ [][ (pos >= 1 => headers' = headers)
           /\ (pos = 0 /\ pos' = 1 => trackers' = trackers) ]_vars

\* A file whose first line is "1,2,0" has been read to its end.
C13_Witness ==
    /\ pc = "done" /\ Len(input) = 3 /\ pos = 3
    /\ input[1] = <<"1", ",", "2", ",", "0">>
    /\ headers = << <<"1">>, <<"2">>, <<"0">> >>

\* Tracker id after it alone has been offered the rows of lines i..j.
RECURSIVE FoldedAlone(_, _, _, _)
FoldedAlone(id, tr, i, j) ==
    IF i > j THEN tr
    ELSE FoldedAlone(id, Process(id, tr, RowAt(i)), i + 1, j)

Unset == [value |-> NegInf, record |-> Null]

C14_Alone ==
    (Loaded /\ pos >= 1) =>
        \A id \in TrackerIds : trackers[id] = FoldedAlone(id, Unset, 2, pos)

\* C14: a tracker's process step reads and writes only its own value and
\* record and leaves the other trackers and the row as they are, so every
\* tracker is in the state it would have after folding over the rows alone.
C14_TrackerIndependence ==
    /\ []C14_Alone
    /\ [][ (pc = "reading" /\ ~isFirstLine /\ pos' = pos + 1) =>
              /\ row' = BuildRow(headers, Split(Trim(input[pos + 1])), pos + 1)
              /\ \A id \in TrackerIds :
                    /\ trackers'[id] \in
                          {trackers[id], Process(id, trackers[id], row')}
                    /\ trackers'[id].record \in {trackers[id].record, row'} ]_vars

\* Two trackers hold different rows at the end of a file.
C14_Witness ==
    /\ pc = "done" /\ pos >= 3
    /\ trackers["maxQuantity"].record # Null
    /\ trackers["maxDiffWithDiscount"].record # Null
    /\ trackers["maxQuantity"].record # trackers["maxDiffWithDiscount"].record
    /\ trackers["maxDiffWithDiscount"].value
           # trackers["maxAmountWithDiscount"].value

\* C15: value and record change together: a tracker has a record exactly when
\* it has a value, the record is one of the rows processed so far that passed
\* the tracker's guard, and the value is the tracker's score of that record.
C15_ScoreRecordPairing ==
    Loaded =>
        \A id \in TrackerIds :
            LET tr == trackers[id] IN
            /\ tr.record = Null <=> tr.value = NegInf
            /\ tr.record # Null =>
                  /\ tr.record.ref \in Qualifying(id)
                  /\ tr.record = RowAt(tr.record.ref)
                  /\ tr.value = Score(id, tr.record)

\* A tracker ends with the record of a row that is not the last one.
C15_Witness ==
    /\ pc = "done" /\ pos >= 3
    /\ trackers["maxQuantity"].record # Null
    /\ trackers["maxQuantity"].record.ref < pos
    /\ trackers["maxQuantity"].value.t = "num"

\* The positions of the header name h.
PositionsOf(h) == {i \in 1..Len(headers) : headers[i] = h}

\* C16: when two header tokens are the same, the row of every data line has
\* that field once, with the value of the later position.
C16_DuplicateHeader ==
    RowBuilt =>
        /\ \A h \in DOMAIN row.fields :
              \E i \in PositionsOf(h) :
                  /\ \A j \in PositionsOf(h) : j <= i
                  /\ row.fields[h] = DecodeField(At(values, i))
        /\ input[1] = HeaderTwice =>
              /\ DOMAIN row.fields = {Quantity}
              /\ values = << <<"1">>, <<"2">>, <<"0">> >> =>
                    row.fields[Quantity] = Num(2 * Hundred)
              /\ values = << <<"2">>, <<"1">>, <<"5", "0">> >> =>
                    row.fields[Quantity] = Num(Hundred)

\* The line "1,2,0" has been decoded under the header "Quantity,quantity".
C16_Witness ==
    /\ RowBuilt
    /\ input[1] = HeaderTwice
    /\ headers = <<Quantity, Quantity>>
    /\ values = << <<"1">>, <<"2">>, <<"0">> >>
    /\ row.fields[Quantity] = Num(2 * Hundred)

\* a >= b of JavaScript: false when either side is NaN.
JSGreaterOrEqual(a, b) ==
    IF a.t = "str" /\ b.t = "str" THEN ~StrLess(a.s, b.s)
    ELSE ToNumber(a).t # "nan" /\ ToNumber(b).t # "nan" /\ ~JSLess(a, b)

\* C18: at every step every tracker's value is greater than or equal to its
\* value before the step (or is left as it was), and a value that was set is
\* never the unset sentinel again.
C18_Monotone ==
    [][ \A id \in TrackerIds :
           \/ trackers'[id] = trackers[id]
           \/ /\ JSGreaterOrEqual(trackers'[id].value, trackers[id].value)
              /\ trackers'[id].value # NegInf ]_vars

\* What the JSON file shows for a key of a tracker: null for a key left out.
Shown(id, key) ==
    IF key \in DOMAIN outFile[id] THEN outFile[id][key] ELSE Null

\* C19: in the JSON file written, every tracker has value null exactly when
\* it has record null.
C19_ValueNullIffRecordNull ==
    outFile # Null =>
        \A id \in TrackerIds :
            Shown(id, "value") = Null <=> Shown(id, "record") = Null

C17_Released == stream = "open" ~> stream = "closed"

====
